---- MODULE Spec2Model ----
(***************************************************************************)
(* Model of the blob packers of asn-d6/blobbers:                           *)
(*   src/src/packer.rs        the naive packer, 31 bytes per field element  *)
(*   src/src/packer_tight.rs  the tight packer, 254 bits per field element  *)
(* A byte is a number in 0..255, a byte vector a sequence of bytes.  The    *)
(* number of field elements per blob (1016 and 4096 in the source) is       *)
(* scaled down; every other size is the source's.                           *)
(***************************************************************************)
EXTENDS Integers, Sequences, FiniteSets

VARIABLES
    strategy,   \* which packer is used: "naive" or "tight"
    data,       \* the payload handed to pack (to unpad, under SpecUnpad)
    pc,         \* how far the run has come
    status,     \* how pack ended: "Ok", "DataLengthError" or "Panic"
    padCall,    \* the call of the padding step, if it was reached
    padded,     \* the padded payload
    blobs,      \* the blobs pack returned
    wire,       \* the concatenated blobs
    corrupted,  \* the change made to the wire, if any
    rcved       \* the result of decoding the wire

vars == <<strategy, data, pc, status, padCall, padded, blobs, wire, corrupted, rcved>>

----------------------------------------------------------------------------
(* Bounds of the model.                                                     *)

\* Field elements per naive blob (the source has 1016).
NaiveElements == 2
\* Field elements per tight blob, in groups of four (the source has 4096 =
\* 4 * 1024; 254 * F is a whole number of bytes exactly when 4 divides F).
TightQuads == 1
\* How far from 0, from one blob's worth and from two blobs' worth the
\* payload lengths and the changed offsets range.
Window == 3
\* Longest byte vector handed to unpad on its own.
MaxUnpadLen == 4

----------------------------------------------------------------------------
(* Capacity constants of packer.rs.                                         *)

FIELD_ELEMENTS_PER_BLOB == NaiveElements
MAX_BLOBS_PER_TX == 2
BYTES_PER_FIELD_ELEMENT == 32
USEFUL_BYTES_PER_FIELD_ELEMENT == 31
USEFUL_BYTES_PER_BLOB == USEFUL_BYTES_PER_FIELD_ELEMENT * FIELD_ELEMENTS_PER_BLOB

MAX_USEFUL_BYTES_PER_TX_NoReserve == USEFUL_BYTES_PER_BLOB * MAX_BLOBS_PER_TX
MAX_USEFUL_BYTES_PER_TX == (USEFUL_BYTES_PER_BLOB * MAX_BLOBS_PER_TX) - 1
BLOB_SIZE == BYTES_PER_FIELD_ELEMENT * FIELD_ELEMENTS_PER_BLOB

(* Capacity constants of packer_tight.rs.                                   *)

TIGHT_MAX_BLOBS_PER_TX == 2
TIGHT_FIELD_ELEMENTS_PER_BLOB == 4 * TightQuads
\* The literal 254 of bits.chunks(254): bits of data per field element.
TIGHT_BITS_PER_FIELD_ELEMENT_Whole == 254 + 2
TIGHT_BITS_PER_FIELD_ELEMENT == 254
USEFUL_BYTES_PER_TIGHT_BLOB == (254 * TIGHT_FIELD_ELEMENTS_PER_BLOB) \div 8
MAX_TIGHT_USEFUL_BYTES_PER_TX == (USEFUL_BYTES_PER_TIGHT_BLOB * TIGHT_MAX_BLOBS_PER_TX) - 1
TIGHT_BYTES_PER_FIELD_ELEMENT == 32
TIGHT_BLOB_SIZE == TIGHT_BYTES_PER_FIELD_ELEMENT * TIGHT_FIELD_ELEMENTS_PER_BLOB

----------------------------------------------------------------------------
(* Results.  PackingError has the two variants of the source; a panic (an   *)
(* index out of range, a failed assertion) is the third outcome of a call.  *)

Ok(v) == [tag |-> "Ok", val |-> v]
Err(e) == [tag |-> e, val |-> <<>>]
NoResult == [tag |-> "none", val |-> <<>>]

\* usize::div_ceil
div_ceil(a, b) == (a + b - 1) \div b

Min(a, b) == IF a <= b THEN a ELSE b

\* Bit b (0-based, most significant bit of byte 0 first: bitvec's Msb0) of a
\* byte vector.
MsbBit(bytes, b) == (bytes[(b \div 8) + 1] \div (2 ^ (7 - (b % 8)))) % 2

\* The byte whose bits, most significant first, are f[0] .. f[7].
ByteOf(f) ==
    128 * f[0] + 64 * f[1] + 32 * f[2] + 16 * f[3] + 8 * f[4] + 4 * f[5] + 2 * f[6] + f[7]

\* v[from..to) of a byte vector, offsets 0-based as in the source.
Slice(v, from, to) == [i \in 1..(to - from) |-> v[from + i]]

\* Vec<Blob>::concat
Concat(bs, size) ==
    [w \in 1..(Len(bs) * size) |-> bs[((w - 1) \div size) + 1][((w - 1) % size) + 1]]

----------------------------------------------------------------------------
(* packer.rs                                                                *)

\* get_padded: the buffer, or a panic when data does not leave room for the
\* marker (clone_from_slice on a short buffer, or the index data.len()).
get_padded(d, n_blobs) ==
    LET cap == n_blobs * USEFUL_BYTES_PER_BLOB
    IN  IF Len(d) >= cap
        THEN [fault |-> TRUE, bytes |-> <<>>]
        ELSE [fault |-> FALSE,
              bytes |-> [i \in 1..cap |->
                            IF i <= Len(d) THEN d[i]
                            ELSE IF i = Len(d) + 1 THEN 128 ELSE 0]]

\* get_blob: element i is data[i*31..(i+1)*31] followed by one zero byte.
get_blob(chunk) ==
    [w \in 1..BLOB_SIZE |->
        LET i == (w - 1) \div 32
            k == (w - 1) % 32
        IN  IF k < 31 THEN chunk[i * 31 + k + 1] ELSE 0]

TooLong_Inclusive(len, max) == len >= max

\* The comparison of the size check, data.len() > MAX_USEFUL_BYTES_PER_TX.
TooLong(len, max) == len > max

\* get_blobs_from_data: [status, padCall, padded, blobs].
get_blobs_from_data(d) ==
    IF Len(d) = 0 \/ TooLong(Len(d), MAX_USEFUL_BYTES_PER_TX)
    THEN [status |-> "DataLengthError", padCall |-> <<>>, padded |-> <<>>, blobs |-> <<>>]
    ELSE LET n_blobs_needed == div_ceil(Len(d), USEFUL_BYTES_PER_BLOB)
             p == get_padded(d, n_blobs_needed)
             call == <<[len |-> Len(d), cap |-> n_blobs_needed * USEFUL_BYTES_PER_BLOB]>>
         IN  IF p.fault
             THEN [status |-> "Panic", padCall |-> call, padded |-> <<>>, blobs |-> <<>>]
             ELSE [status |-> "Ok", padCall |-> call, padded |-> p.bytes,
                   blobs |-> [i \in 1..n_blobs_needed |->
                                 get_blob(Slice(p.bytes, (i - 1) * USEFUL_BYTES_PER_BLOB,
                                                i * USEFUL_BYTES_PER_BLOB))]]

unpad_KeepMarker(v) ==
    LET nz == {i \in 1..Len(v) : v[i] # 0}
    IN  IF nz = {} THEN Err("UnpadError")
        ELSE LET m == CHOOSE i \in nz : \A j \in nz : j <= i
             IN  IF v[m] = 128 THEN Ok(SubSeq(v, 1, m)) ELSE Err("UnpadError")

\* The index (1-based; 0 for none) at which the loop `for i in
\* (0..data.len()).rev()` leaves the arm `0x00 => continue`: the last byte
\* that is not zero.
scan_stop(v) ==
    CHOOSE i \in 0..Len(v) : (i = 0 \/ v[i] # 0) /\ \A j \in (i + 1)..Len(v) : v[j] = 0

\* tests::unpad of packer.rs.
unpad(v) ==
    LET i == scan_stop(v)
    IN  IF i = 0 THEN Err("UnpadError")
        ELSE IF v[i] = 128 THEN Ok(SubSeq(v, 1, i - 1))
        ELSE Err("UnpadError")

clean_field_elements_DropFirst(v) ==
    [j \in 1..(Len(v) - ((Len(v) + 31) \div 32)) |->
        v[((j - 1) \div 31) * 32 + ((j - 1) % 31) + 2]]

\* tests::clean_field_elements: retain drops every 32nd byte (the 1-based
\* count index is a multiple of 32).
clean_field_elements(v) ==
    [j \in 1..(Len(v) - (Len(v) \div 32)) |->
        v[((j - 1) \div 31) * 32 + ((j - 1) % 31) + 1]]

----------------------------------------------------------------------------
(* packer_tight.rs                                                          *)

\* get_padded_tight: as get_padded, on the tight blob size.
get_padded_tight(d, n_blobs) ==
    LET cap == n_blobs * USEFUL_BYTES_PER_TIGHT_BLOB
    IN  IF Len(d) >= cap
        THEN [fault |-> TRUE, bytes |-> <<>>]
        ELSE [fault |-> FALSE,
              bytes |-> [i \in 1..cap |->
                            IF i <= Len(d) THEN d[i]
                            ELSE IF i = Len(d) + 1 THEN 128 ELSE 0]]

\* The number of groups bits.chunks(254) yields, and the length of group i.
chunks_count(chunk) == div_ceil(8 * Len(chunk), TIGHT_BITS_PER_FIELD_ELEMENT)
chunk_len(chunk, i) ==
    Min(TIGHT_BITS_PER_FIELD_ELEMENT, 8 * Len(chunk) - TIGHT_BITS_PER_FIELD_ELEMENT * i)

\* Bit k of buf for group i: buf is zero but for buf_slice[..chunk.len()].
buf_bit(chunk, i, k) ==
    IF i < chunks_count(chunk) /\ k < chunk_len(chunk, i)
    THEN MsbBit(chunk, TIGHT_BITS_PER_FIELD_ELEMENT * i + k)
    ELSE 0

get_packed_blob_LowBits(chunk) ==
    [w \in 1..TIGHT_BLOB_SIZE |->
        LET i == (w - 1) \div TIGHT_BYTES_PER_FIELD_ELEMENT
            kb == (w - 1) % TIGHT_BYTES_PER_FIELD_ELEMENT
        IN  ByteOf([t \in 0..7 |->
                      IF 8 * kb + t < 2 THEN 0 ELSE buf_bit(chunk, i, 8 * kb + t - 2)])]

\* get_packed_blob: element i is buf, group i of the chunk's bits followed by
\* zero bits.
get_packed_blob(chunk) ==
    [w \in 1..TIGHT_BLOB_SIZE |->
        LET i == (w - 1) \div TIGHT_BYTES_PER_FIELD_ELEMENT
            kb == (w - 1) % TIGHT_BYTES_PER_FIELD_ELEMENT
        IN  ByteOf([t \in 0..7 |-> buf_bit(chunk, i, 8 * kb + t)])]

\* The slice blob[i*32..(i+1)*32] is out of range for a group past the last
\* field element.
get_packed_blob_faults(chunk) == chunks_count(chunk) > TIGHT_FIELD_ELEMENTS_PER_BLOB

\* get_blobs_from_data of packer_tight.rs: [status, padCall, padded, blobs].
get_tight_blobs_from_data(d) ==
    IF Len(d) = 0 \/ Len(d) > MAX_TIGHT_USEFUL_BYTES_PER_TX
    THEN [status |-> "DataLengthError", padCall |-> <<>>, padded |-> <<>>, blobs |-> <<>>]
    ELSE LET n_blobs_needed == div_ceil(Len(d), USEFUL_BYTES_PER_TIGHT_BLOB)
             p == get_padded_tight(d, n_blobs_needed)
             call == <<[len |-> Len(d), cap |-> n_blobs_needed * USEFUL_BYTES_PER_TIGHT_BLOB]>>
             chunk(i) == Slice(p.bytes, (i - 1) * USEFUL_BYTES_PER_TIGHT_BLOB,
                               i * USEFUL_BYTES_PER_TIGHT_BLOB)
         IN  IF p.fault \/ get_packed_blob_faults(chunk(1))
             THEN [status |-> "Panic", padCall |-> call, padded |-> <<>>, blobs |-> <<>>]
             ELSE [status |-> "Ok", padCall |-> call, padded |-> p.bytes,
                   blobs |-> [i \in 1..n_blobs_needed |-> get_packed_blob(chunk(i))]]

unpad_tight_SkipNonZero(v) ==
    LET marks == {i \in 1..Len(v) : v[i] = 128}
    IN  IF marks = {} THEN Err("UnpadError")
        ELSE Ok(SubSeq(v, 1, (CHOOSE i \in marks : \A j \in marks : j <= i) - 1))

\* tests::unpad of packer_tight.rs, the same scan.
unpad_tight(v) ==
    LET i == scan_stop(v)
    IN  IF i = 0 THEN Err("UnpadError")
        ELSE IF v[i] = 128 THEN Ok(SubSeq(v, 1, i - 1))
        ELSE Err("UnpadError")

\* tests::clean_field_elements_tight: the bits with idx % 256 < 254, in
\* order, as bytes (a last partial byte is filled with zero bits).
clean_field_elements_tight(v) ==
    LET n == 8 * Len(v)
        kept == (n \div 256) * 254 + Min(n % 256, 254)
    IN  [j \in 1..div_ceil(kept, 8) |->
            ByteOf([t \in 0..7 |->
                      LET m == 8 * (j - 1) + t
                      IN  IF m < kept
                          THEN MsbBit(v, (m \div 254) * 256 + (m % 254))
                          ELSE 0])]

----------------------------------------------------------------------------
(* The two strategies side by side.                                         *)

Strategies == {"naive", "tight"}

UsablePerBlob(s) ==
    IF s = "naive" THEN USEFUL_BYTES_PER_BLOB ELSE USEFUL_BYTES_PER_TIGHT_BLOB
MaxUseful(s) ==
    IF s = "naive" THEN MAX_USEFUL_BYTES_PER_TX ELSE MAX_TIGHT_USEFUL_BYTES_PER_TX
MaxBlobs(s) == IF s = "naive" THEN MAX_BLOBS_PER_TX ELSE TIGHT_MAX_BLOBS_PER_TX
BlobSize(s) == IF s = "naive" THEN BLOB_SIZE ELSE TIGHT_BLOB_SIZE
ElementsPerBlob(s) ==
    IF s = "naive" THEN FIELD_ELEMENTS_PER_BLOB ELSE TIGHT_FIELD_ELEMENTS_PER_BLOB

\* pack: the strategy's get_blobs_from_data.
pack(s, d) ==
    IF s = "naive" THEN get_blobs_from_data(d) ELSE get_tight_blobs_from_data(d)

\* tests::pack after blobs.concat(): unpad the wire bytes (the unwrap fails
\* on an error), then clean the field elements.
decode_naive(w) ==
    LET r == unpad(w)
    IN  IF r.tag = "Ok" THEN Ok(clean_field_elements(r.val)) ELSE r

\* tests::pack_then_unpack_then_verify after blobs.concat(): clean the field
\* elements, then unpad.
decode_tight(w) == unpad_tight(clean_field_elements_tight(w))

decode(s, w) == IF s = "naive" THEN decode_naive(w) ELSE decode_tight(w)

\* The wire bytes with byte p (0-based) of the padded payload they carry
\* set to v.
SetPayloadByte(s, w, p, v) ==
    IF s = "naive"
    THEN [w EXCEPT ![32 * (p \div 31) + (p % 31) + 1] = v]
    ELSE [x \in 1..Len(w) |->
            ByteOf([t \in 0..7 |->
                      LET b == 8 * (x - 1) + t
                          k == b % 256
                          m == (b \div 256) * 254 + k
                      IN  IF k < 254 /\ m \div 8 = p
                          THEN (v \div (2 ^ (7 - (m % 8)))) % 2
                          ELSE MsbBit(w, b)])]

----------------------------------------------------------------------------
(* Inputs.                                                                  *)

Patterns == {"zeros", "marks", "ones", "ramp"}

PatByte(pat, i) ==
    CASE pat = "zeros" -> 0
      [] pat = "marks" -> 128
      [] pat = "ones" -> 255
      [] OTHER -> (37 * i + 11) % 256

Payload(len, pat) == [i \in 1..len |-> PatByte(pat, i)]

Near(x, c) == x >= c - Window /\ x <= c + Window

\* Payload lengths, to one past two blobs' worth: around empty, around one
\* and two blobs' worth, and around one field element into each blob.
Lengths(s) ==
    {n \in 0..(UsablePerBlob(s) * MaxBlobs(s) + 1) :
        \E k \in 0..MaxBlobs(s) :
            \/ Near(n, k * UsablePerBlob(s))
            \/ Near(n, k * UsablePerBlob(s) + BYTES_PER_FIELD_ELEMENT)}

\* Offsets of the zero-fill that are changed: its first bytes, its last
\* bytes and the bytes around a blob boundary.
ZeroFillOffsets(s, len, cap) ==
    {p \in (len + 1)..(cap - 1) :
        Near(p, len) \/ \E k \in 1..MaxBlobs(s) : Near(p, k * UsablePerBlob(s))}

\* Values a byte of the zero-fill is changed to.
CorruptValues == {1, 128, 255}

\* Bytes of the vectors handed to unpad on its own.
UnpadBytes == {0, 1, 128, 255}

----------------------------------------------------------------------------
(* The state machine: a payload is packed, the blobs are put on the wire,   *)
(* a byte of the zero-fill may be changed there, and the wire is decoded.   *)

Init ==
    /\ strategy \in Strategies
    /\ \E len \in Lengths(strategy), pat \in Patterns : data = Payload(len, pat)
    /\ pc = "input"
    /\ status = "none"
    /\ padCall = <<>>
    /\ padded = <<>>
    /\ blobs = <<>>
    /\ wire = <<>>
    /\ corrupted = <<>>
    /\ rcved = NoResult

Pack ==
    /\ pc = "input"
    /\ LET r == pack(strategy, data)
       IN  /\ status' = r.status
           /\ padCall' = r.padCall
           /\ padded' = r.padded
           /\ blobs' = r.blobs
    /\ pc' = "packed"
    /\ UNCHANGED <<strategy, data, wire, corrupted, rcved>>

\* blobs.concat(), and the test's assertion on its length.
Transmit ==
    /\ pc = "packed"
    /\ status = "Ok"
    /\ wire' = Concat(blobs, BlobSize(strategy))
    /\ pc' = "wire"
    /\ UNCHANGED <<strategy, data, status, padCall, padded, blobs, corrupted, rcved>>

Corrupt ==
    /\ pc = "wire"
    /\ corrupted = <<>>
    /\ \E p \in ZeroFillOffsets(strategy, Len(data), Len(padded)), v \in CorruptValues :
          /\ wire' = SetPayloadByte(strategy, wire, p, v)
          /\ corrupted' = <<[at |-> p, to |-> v]>>
    /\ UNCHANGED <<strategy, data, pc, status, padCall, padded, blobs, rcved>>

\* The rest of the strategy's round-trip test.
Decode ==
    /\ pc = "wire"
    /\ rcved' = decode(strategy, wire)
    /\ pc' = "decoded"
    /\ UNCHANGED <<strategy, data, status, padCall, padded, blobs, wire, corrupted>>

Next == Pack \/ Transmit \/ Corrupt \/ Decode

Spec == Init /\ [][Next]_vars

----------------------------------------------------------------------------
(* unpad on its own, on every short vector over UnpadBytes.                 *)

ByteVectors == UNION {[1..n -> UnpadBytes] : n \in 0..MaxUnpadLen}

InitUnpad ==
    /\ strategy \in Strategies
    /\ data \in ByteVectors
    /\ pc = "unpad_input"
    /\ status = "none"
    /\ padCall = <<>>
    /\ padded = <<>>
    /\ blobs = <<>>
    /\ wire = <<>>
    /\ corrupted = <<>>
    /\ rcved = NoResult

Unpad ==
    /\ pc = "unpad_input"
    /\ rcved' = IF strategy = "naive" THEN unpad(data) ELSE unpad_tight(data)
    /\ pc' = "unpad_done"
    /\ UNCHANGED <<strategy, data, status, padCall, padded, blobs, wire, corrupted>>

NextUnpad == Unpad

SpecUnpad == InitUnpad /\ [][NextUnpad]_vars

----------------------------------------------------------------------------
(* The claims.                                                              *)

\* The payload passes pack's size validation.
Accepted == 0 < Len(data) /\ Len(data) <= MaxUseful(strategy)

\* unpack as specified: decode every field element, concatenate, unpad.
unpack(s, w) ==
    IF s = "naive"
    THEN unpad(clean_field_elements(w))
    ELSE unpad_tight(clean_field_elements_tight(w))

\* Byte j (0-based) of the payload region of a blob: for naive, byte j % 31
\* of element j / 31; for tight, bits 8j .. 8j+7 of the 254-bit regions read
\* in element order.
RegionByte(s, blob, j) ==
    IF s = "naive"
    THEN blob[32 * (j \div 31) + (j % 31) + 1]
    ELSE ByteOf([t \in 0..7 |->
                   LET m == 8 * j + t
                   IN  MsbBit(blob, (m \div 254) * 256 + (m % 254))])

\* The padded payload of the data: the data, the marker, zero bytes to n.
PaddedTo(n) ==
    [i \in 1..n |-> IF i <= Len(data) THEN data[i]
                    ELSE IF i = Len(data) + 1 THEN 128 ELSE 0]

\* C1: round trip.  For either strategy and every accepted payload, pack
\* succeeds, and unpack of the returned blobs returns exactly the payload.
RoundTrip ==
    Accepted =>
        /\ pc # "input" => status = "Ok"
        /\ (pc = "decoded" /\ corrupted = <<>>) => unpack(strategy, wire) = Ok(data)

\* C2: for every accepted payload the padding step is reached with a length
\* strictly below the buffer's capacity, and pack does not fault.
MarkerFits ==
    (pc # "input" /\ Accepted) =>
        /\ status # "Panic"
        /\ padCall # <<>>
        /\ padCall[1].len < padCall[1].cap

\* C3: pack returns DataLengthError exactly when the payload is empty or
\* longer than max_useful_bytes_per_tx, and then the padding step was not
\* reached and no blob was made.
LengthErrorExactly ==
    pc # "input" =>
        /\ status = "DataLengthError" <=>
              (Len(data) = 0 \/ Len(data) > MaxUseful(strategy))
        /\ status = "DataLengthError" =>
              (padCall = <<>> /\ padded = <<>> /\ blobs = <<>>)

\* C3, its case: a payload one byte too long was rejected.
LengthErrorWitness ==
    /\ pc = "packed"
    /\ Len(data) = MaxUseful(strategy) + 1
    /\ status = "DataLengthError"

\* C4: a payload of exactly max_useful_bytes_per_tx = usable_bytes_per_blob *
\* max_blobs_per_tx - 1 bytes is packed into exactly max_blobs_per_tx blobs,
\* and the marker is the last byte of the last blob's payload region.
BoundaryExact ==
    (pc = "packed" /\ Len(data) = MaxUseful(strategy)) =>
        /\ MaxUseful(strategy) = UsablePerBlob(strategy) * MaxBlobs(strategy) - 1
        /\ status = "Ok"
        /\ Len(blobs) = MaxBlobs(strategy)
        /\ RegionByte(strategy, blobs[Len(blobs)], UsablePerBlob(strategy) - 1) = 128

\* C4, its case: the largest accepted tight payload was packed.
BoundaryWitness ==
    /\ pc = "packed"
    /\ strategy = "tight"
    /\ Len(data) = MAX_TIGHT_USEFUL_BYTES_PER_TX
    /\ Len(blobs) = 2

\* C5 as written: a byte of the zero-fill changed to any nonzero value, 0x80
\* included, makes unpack fail with UnpadError.
CorruptionAlwaysDetected ==
    (pc = "decoded" /\ corrupted # <<>>) => unpack(strategy, wire).tag = "UnpadError"

\* C5 as amended: a byte of the zero-fill changed to a nonzero value other
\* than 0x80 makes unpack (and the strategy's test decoding) fail with
\* UnpadError; changed to 0x80 it is taken for the marker, and the result is
\* the padded payload up to that byte, which is not the payload.
CorruptionDetected ==
    (pc = "decoded" /\ corrupted # <<>>) =>
        LET expected == IF corrupted[1].to # 128
                        THEN Err("UnpadError")
                        ELSE Ok(PaddedTo(corrupted[1].at))
        IN  /\ unpack(strategy, wire) = expected
            /\ rcved = expected
            /\ expected.tag = "Ok" => expected.val # data

\* C5, its case: a changed byte was detected on the tight wire.
CorruptionWitness ==
    /\ pc = "decoded"
    /\ strategy = "tight"
    /\ corrupted # <<>>
    /\ corrupted[1].to = 1
    /\ rcved.tag = "UnpadError"

\* C6: in every blob pack returns the reserved bits of every field element
\* are zero: byte 31 for naive, the two low bits of byte 31 for tight.
ReservedBitsZero ==
    (pc = "packed" /\ status = "Ok") =>
        \A i \in 1..Len(blobs), e \in 1..ElementsPerBlob(strategy) :
            IF strategy = "naive"
            THEN blobs[i][32 * e] = 0
            ELSE blobs[i][32 * e] % 4 = 0

\* C6, its case: two tight blobs were made of a payload of 0xFF bytes.
ReservedBitsWitness ==
    /\ pc = "packed"
    /\ strategy = "tight"
    /\ Len(blobs) = 2
    /\ \A i \in 1..Len(data) : data[i] = 255

\* C7: for every accepted payload pack returns ceil(len / usable_bytes_per_blob)
\* blobs, between 1 and max_blobs_per_tx, and blob i is the encoding of
\* chunk i of the padded payload.
BlobCountAndOrder ==
    (pc # "input" /\ Accepted) =>
        LET u == UsablePerBlob(strategy)
            n == div_ceil(Len(data), u)
        IN  /\ status = "Ok"
            /\ Len(blobs) = n
            /\ n >= 1 /\ n <= MaxBlobs(strategy)
            /\ \A i \in 1..Len(blobs), j \in 0..(u - 1) :
                  RegionByte(strategy, blobs[i], j) = PaddedTo(n * u)[(i - 1) * u + j + 1]

\* C8: unpad returns the prefix before the last non-zero byte when that byte
\* is 0x80, and UnpadError when it is another value or there is none.
UnpadScan ==
    pc = "unpad_done" =>
        IF \E i \in 1..Len(data) :
              data[i] = 128 /\ \A j \in (i + 1)..Len(data) : data[j] = 0
        THEN /\ rcved.tag = "Ok"
             /\ Len(rcved.val) < Len(data)
             /\ data[Len(rcved.val) + 1] = 128
             /\ \A j \in 1..Len(data) :
                   IF j <= Len(rcved.val) THEN rcved.val[j] = data[j]
                   ELSE j > Len(rcved.val) + 1 => data[j] = 0
        ELSE rcved = Err("UnpadError")

\* C8, its case: a vector with a byte before the marker and zeros after it.
UnpadWitness ==
    /\ pc = "unpad_done"
    /\ data = <<1, 128, 0, 0>>
    /\ rcved = Ok(<<1>>)

\* C9: a tight chunk splits into exactly field_elements_per_blob groups of
\* exactly 254 bits, bit k of element j is bit 254*j + k of the chunk, and
\* dropping bits 254 and 255 of every element returns the chunk.
TightWireLayout ==
    (pc = "packed" /\ strategy = "tight" /\ status = "Ok") =>
        \A i \in 1..Len(blobs) :
            LET chunk == Slice(padded, (i - 1) * USEFUL_BYTES_PER_TIGHT_BLOB,
                               i * USEFUL_BYTES_PER_TIGHT_BLOB)
            IN  /\ chunks_count(chunk) = TIGHT_FIELD_ELEMENTS_PER_BLOB
                /\ \A j \in 0..(TIGHT_FIELD_ELEMENTS_PER_BLOB - 1) :
                      /\ chunk_len(chunk, j) = 254
                      /\ \A k \in 0..253 :
                            MsbBit(blobs[i], 256 * j + k) = MsbBit(chunk, 254 * j + k)
                /\ clean_field_elements_tight(blobs[i]) = chunk

\* C9, its case: two tight blobs were made of a payload of varied bytes.
TightLayoutWitness ==
    /\ pc = "packed"
    /\ strategy = "tight"
    /\ Len(blobs) = 2
    /\ Len(data) > 1
    /\ data[1] = 48 /\ data[2] = 85

\* C10: on the blobs pack returned, the naive test's order (unpad the wire
\* bytes, then drop byte 31 of every element) and the specified order (drop,
\* then unpad) give the same payload, the original one.
NaiveDecodeOrders ==
    (pc = "decoded" /\ strategy = "naive" /\ corrupted = <<>>) =>
        /\ rcved = unpack("naive", wire)
        /\ rcved = Ok(data)

\* C10, its case: two naive blobs were decoded, of a payload that ends in
\* 0x80 and whose marker is the first byte of a field element.
NaiveOrdersWitness ==
    /\ pc = "decoded"
    /\ strategy = "naive"
    /\ corrupted = <<>>
    /\ Len(blobs) = 2
    /\ Len(data) % 31 = 0
    /\ data[Len(data)] = 128
    /\ rcved.tag = "Ok"

====
